---- MODULE Spec2Model ----
(***************************************************************************)
(* Model of the accounts client library (package accountsclient).          *)
(*                                                                         *)
(* A Client value (BaseURL, Token, ApiKey, HttpClient) issues HTTP         *)
(* requests through HttpClient.Do and turns the response into a result.    *)
(* The model keeps the requests a call has sent and the responses it has   *)
(* received, so that the order, number and content of the requests and the *)
(* value returned to the caller can be stated.  The remote service and the *)
(* transport are the environment: every response is chosen                 *)
(* nondeterministically.                                                   *)
(***************************************************************************)
EXTENDS Integers, Sequences, FiniteSets, TLC

VARIABLES
    client,     \* the Client value: BaseURL, Token, ApiKey, HttpClient
    pc,         \* "idle", "DeleteAccount", "ListAccounts" (inside the loop) or "done"
    op,         \* name of the operation called last
    input,      \* the arguments of that call
    accountType, \* the local accountType of the call (nil until it is assigned)
    idx,        \* index into accountTypes of the next loop iteration
    accounts,   \* ListAccounts: the accounts appended so far
    requests,   \* the requests the call has handed to HttpClient.Do, in order
    responses,  \* what HttpClient.Do returned for each of them, in order
    result,     \* what the call returned: [err, val, diag]; diag is the
                \* response body text quoted in the error message, if any
    entity,     \* the struct a successful decode filled in, kept for the
                \* operations that decode service accounts
    closed,     \* for each response, in order: nothing of it is left open
                \* (resp.Body.Close() has run, or Do returned no response)
    calls,      \* the DeleteAccount calls of concurrent callers: for each
                \* caller its position, loop index, requests, responses, result
    server      \* the kinds under which the server holds the account that
                \* the concurrent callers delete

vars == <<client, pc, op, input, accountType, idx, accounts, requests, responses, result,
          entity, closed, calls, server>>

----------------------------------------------------------------------------
(* Bounds of the model.                                                    *)

\* number of accounts the service holds, all kinds together: the lists the
\* six kind endpoints return to one ListAccounts call have at most this many
\* entries in total
MaxAccounts == 2

\* number of distinct account records the service may return
NumAccounts == 2

\* latest instant, in hours, of a clock reading or of an expiry handed in by
\* the caller
MaxTime == 2

----------------------------------------------------------------------------
(* Values.                                                                 *)

Nil == "nil"

\* uuid.UUID values handed in by the caller
IDs == {"id1"}

\* uuid.Nil, the zero value of uuid.UUID
NilUUID == "00000000-0000-0000-0000-000000000000"

\* uuid.UUID values passed by value
UUIDs == IDs \cup {NilUUID}

\* instants, in hours
Times == 0..MaxTime

\* account records, told apart by their id
AccountRecords == 1..NumAccounts

\* the six kind-identifier fields of Create/Update/SearchAccountInput
Fields == {"UserID", "AgencyID", "CelebrityID", "BusinessID", "EnterpriseID", "GovernmentID"}

\* a sparse input: every field is nil or points to a uuid
AccountInputs == [Fields -> IDs \cup {Nil}]

\* HTTP status codes the service may answer
Statuses == {200, 201, 204, 302, 400, 404, 500}

\* what reading and decoding a response body gives:
\* "json" decodes, "garbage" fails in json.Unmarshal / Decode,
\* "unreadable" fails in io.ReadAll
Bodies == {"json", "garbage", "unreadable"}

\* Client.BaseURL: a well-formed URL, the empty string (url.Parse accepts it,
\* the requests then carry a path only) and a string url.Parse and
\* http.NewRequest reject ("missing protocol scheme")
BaseURLs == {"https://accounts.example.com", "", "://accounts"}

\* the transport the caller configured the client with
HttpClients == {"http.DefaultClient"}

Clients == [BaseURL : BaseURLs, Token : {"", "tok"}, ApiKey : {"", "key"},
            HttpClient : HttpClients]

\* url.Parse(c.BaseURL), and http.NewRequest on a URL built from c.BaseURL
ParseOK(baseURL) == baseURL # "://accounts"

NoResult == [err |-> Nil, val |-> Nil, diag |-> Nil]

Ok(v) == [err |-> "none", val |-> v, diag |-> Nil]

Fail(e) == [err |-> e, val |-> Nil, diag |-> Nil]

\* nothing was decoded into a service account
NoEntity == [type |-> Nil, Secret |-> ""]

\* what io.ReadAll hands back of a body: nothing of one that cannot be read
BodyText(resp) == IF resp.body = "unreadable" THEN "" ELSE resp.body

\* an unexpected-status error whose message quotes the response body
StatusError(resp) == [err |-> "status", val |-> Nil, diag |-> BodyText(resp)]

----------------------------------------------------------------------------
(* Headers.  http.Header.Set and Add store the value under the canonical   *)
(* form of the key (textproto.CanonicalMIMEHeaderKey).                     *)

CanonicalHeaderKey(k) ==
    CASE k \in {"X-Api-Key", "X-API-Key", "X-API-KEY", "x-api-key"} -> "X-Api-Key"
      [] k \in {"Authorization", "authorization"} -> "Authorization"
      [] k \in {"Content-Type", "content-type"} -> "Content-Type"
      [] OTHER -> k

NoHeaders == [k \in {} |-> ""]

SetHeader(h, k, v) == (CanonicalHeaderKey(k) :> v) @@ h

Bearer(token) == <<"Bearer ", token>>

----------------------------------------------------------------------------
(* accounts.go                                                             *)

\* mutant: business is asked before celebrity
accountTypes_Reordered == <<"user", "agency", "business", "celebrity", "enterprise", "government">>

\* the accountTypes slice of DeleteAccount
accountTypes == <<"user", "agency", "celebrity", "business", "enterprise", "government">>

\* the accountTypes slice of ListAccounts
ListAccounts_accountTypes == <<"user", "agency", "celebrity", "business", "enterprise", "government">>

\* mutant: the celebrity and agency branches change places
CreateAccountInput_GetAccountType_Swapped(in) ==
    IF in["UserID"] # Nil THEN "user"
    ELSE IF in["CelebrityID"] # Nil THEN "celebrity"
    ELSE IF in["AgencyID"] # Nil THEN "agency"
    ELSE IF in["BusinessID"] # Nil THEN "business"
    ELSE IF in["EnterpriseID"] # Nil THEN "enterprise"
    ELSE IF in["GovernmentID"] # Nil THEN "government"
    ELSE ""

\* CreateAccountInput.GetAccountType
CreateAccountInput_GetAccountType(in) ==
    IF in["UserID"] # Nil THEN "user"
    ELSE IF in["AgencyID"] # Nil THEN "agency"
    ELSE IF in["CelebrityID"] # Nil THEN "celebrity"
    ELSE IF in["BusinessID"] # Nil THEN "business"
    ELSE IF in["EnterpriseID"] # Nil THEN "enterprise"
    ELSE IF in["GovernmentID"] # Nil THEN "government"
    ELSE ""

\* mutant: the agency branch comes before the user branch
UpdateAccountInput_GetAccountType_AgencyFirst(in) ==
    IF in["AgencyID"] # Nil THEN "agency"
    ELSE IF in["UserID"] # Nil THEN "user"
    ELSE IF in["CelebrityID"] # Nil THEN "celebrity"
    ELSE IF in["BusinessID"] # Nil THEN "business"
    ELSE IF in["EnterpriseID"] # Nil THEN "enterprise"
    ELSE IF in["GovernmentID"] # Nil THEN "government"
    ELSE ""

\* UpdateAccountInput.GetAccountType
UpdateAccountInput_GetAccountType(in) ==
    IF in["UserID"] # Nil THEN "user"
    ELSE IF in["AgencyID"] # Nil THEN "agency"
    ELSE IF in["CelebrityID"] # Nil THEN "celebrity"
    ELSE IF in["BusinessID"] # Nil THEN "business"
    ELSE IF in["EnterpriseID"] # Nil THEN "enterprise"
    ELSE IF in["GovernmentID"] # Nil THEN "government"
    ELSE ""

\* mutant: the last branch returns the kind of the branch above it
SearchAccountInput_GetAccountType_Slip(in) ==
    IF in["UserID"] # Nil THEN "user"
    ELSE IF in["AgencyID"] # Nil THEN "agency"
    ELSE IF in["CelebrityID"] # Nil THEN "celebrity"
    ELSE IF in["BusinessID"] # Nil THEN "business"
    ELSE IF in["EnterpriseID"] # Nil THEN "enterprise"
    ELSE IF in["GovernmentID"] # Nil THEN "enterprise"
    ELSE ""

\* SearchAccountInput.GetAccountType
SearchAccountInput_GetAccountType(in) ==
    IF in["UserID"] # Nil THEN "user"
    ELSE IF in["AgencyID"] # Nil THEN "agency"
    ELSE IF in["CelebrityID"] # Nil THEN "celebrity"
    ELSE IF in["BusinessID"] # Nil THEN "business"
    ELSE IF in["EnterpriseID"] # Nil THEN "enterprise"
    ELSE IF in["GovernmentID"] # Nil THEN "government"
    ELSE ""

\* json.Marshal of a Create/Update/SearchAccountInput: user_id has no
\* omitempty and is always written (null for nil); the other five keys are
\* written only when the pointer is not nil.
JSONKey(f) ==
    CASE f = "UserID" -> "user_id"
      [] f = "AgencyID" -> "agencyId"
      [] f = "CelebrityID" -> "celebrityId"
      [] f = "BusinessID" -> "businessId"
      [] f = "EnterpriseID" -> "enterpriseId"
      [] f = "GovernmentID" -> "governmentId"

MarshalAccountInput(in) ==
    { <<JSONKey(f), IF in[f] = Nil THEN "null" ELSE in[f]>> :
        f \in {g \in Fields : g = "UserID" \/ in[g] # Nil} }

\* the headers accounts.go puts on its requests
AccountsHeaders(c) ==
    SetHeader(SetHeader(NoHeaders, "Content-Type", "application/json"),
              "Authorization", Bearer(c.Token))

\* what HttpClient.Do can return
TransportError == [kind |-> "error", status |-> 0, body |-> Nil, list |-> <<>>]

Response(s, b) == [kind |-> "response", status |-> s, body |-> b, list |-> <<>>]

Responses == {TransportError} \cup {Response(s, b) : s \in Statuses, b \in Bodies}

\* mutant: a 201 is taken for a success as well
DecodeOn200_Created(resp) ==
    IF resp.kind = "error" THEN Fail("transport")
    ELSE IF resp.status \notin {200, 201} THEN Fail("status")
    ELSE IF resp.body = "unreadable" THEN Fail("read")
    ELSE IF resp.body = "garbage" THEN Fail("decode")
    ELSE Ok("decoded")

\* the tail shared by CreateAccount, UpdateAccount, SearchAccounts,
\* VerifyAccount and GetAccountByField: Do, status check, ReadAll, Unmarshal
DecodeOn200(resp) ==
    IF resp.kind = "error" THEN Fail("transport")
    ELSE IF resp.status # 200 THEN Fail("status")
    ELSE IF resp.body = "unreadable" THEN Fail("read")
    ELSE IF resp.body = "garbage" THEN Fail("decode")
    ELSE Ok("decoded")

Idle == pc = "idle"

\* mutant: the check is missing
KindUndetermined_Never(at) == FALSE

\* the check `if accountType == ""` of CreateAccount, UpdateAccount,
\* SearchAccounts and VerifyAccount
KindUndetermined(at) == at = ""

\* the operations that never call resp.Body.Close()
NeverClosing == {"DeleteAccountLink", "RemoveMemberFromCelebrityAccount", "UpdateBusinessAccount"}

\* the operations whose `defer resp.Body.Close()` stands after the status
\* check, where only an accepted status reaches it
ClosingAfterStatus == {"CreateBusinessAccount", "AddMemberToBusinessAccount"}

\* the deferred closes of a call that has returned; every other operation
\* defers the close right after Do succeeded
Closed(name, resps, res) ==
    [k \in 1..Len(resps) |->
        \/ resps[k].kind = "error"
        \/ /\ name \notin NeverClosing
           /\ name \in ClosingAfterStatus => res.err # "status"]

\* the deferred closes of the loop iterations of DeleteAccount and
\* ListAccounts run when the function returns, not before
ClosedOnReturn(resps) == [k \in 1..Len(resps) |-> TRUE]

\* mutant: a call that failed drops the client's token
Finish_DropsToken(name, in, at, reqs, resps, res, ent) ==
    /\ op' = name
    /\ input' = in
    /\ accountType' = at
    /\ requests' = reqs
    /\ responses' = resps
    /\ result' = res
    /\ entity' = ent
    /\ pc' = "done"
    /\ idx' = 1
    /\ accounts' = <<>>
    /\ closed' = Closed(name, resps, res)
    /\ UNCHANGED <<calls, server>>
    /\ client' = IF res.err = "status" THEN [client EXCEPT !.Token = ""] ELSE client

\* a call that returns without entering a loop
Finish(name, in, at, reqs, resps, res, ent) ==
    /\ op' = name
    /\ input' = in
    /\ accountType' = at
    /\ requests' = reqs
    /\ responses' = resps
    /\ result' = res
    /\ entity' = ent
    /\ pc' = "done"
    /\ idx' = 1
    /\ accounts' = <<>>
    /\ closed' = Closed(name, resps, res)
    /\ UNCHANGED <<client, calls, server>>

\* a call that ends without sending anything
ReturnEarly(name, in, at, res) == Finish(name, in, at, <<>>, <<>>, res, NoEntity)

\* a call that sends one request and returns
SingleShot(name, in, at, req, resp, res) ==
    Finish(name, in, at, <<req>>, <<resp>>, res, NoEntity)

CreateAccount ==
    /\ Idle
    /\ \E in \in AccountInputs, resp \in Responses :
        LET at == CreateAccountInput_GetAccountType(in)
            req == [method |-> "POST", path |-> <<at>>, query |-> {},
                    headers |-> AccountsHeaders(client), body |-> MarshalAccountInput(in)]
        IN  IF ~ParseOK(client.BaseURL) THEN ReturnEarly("CreateAccount", in, Nil, Fail("parse"))
            ELSE IF KindUndetermined(at) THEN ReturnEarly("CreateAccount", in, at, Fail("KindUndetermined"))
            ELSE SingleShot("CreateAccount", in, at, req, resp, DecodeOn200(resp))

UpdateAccount ==
    /\ Idle
    /\ \E accountID \in IDs, in \in AccountInputs, resp \in Responses :
        LET at == UpdateAccountInput_GetAccountType(in)
            args == [accountID |-> accountID, input |-> in]
            req == [method |-> "PUT", path |-> <<at, accountID>>, query |-> {},
                    headers |-> AccountsHeaders(client), body |-> MarshalAccountInput(in)]
        IN  IF ~ParseOK(client.BaseURL) THEN ReturnEarly("UpdateAccount", args, Nil, Fail("parse"))
            ELSE IF KindUndetermined(at) THEN ReturnEarly("UpdateAccount", args, at, Fail("KindUndetermined"))
            ELSE SingleShot("UpdateAccount", args, at, req, resp, DecodeOn200(resp))

\* SearchAccounts copies only UserID and AgencyID into the query string
\* ("Repeat this for all fields in the input" is left as a comment).
SearchParams(in) ==
    (IF in["UserID"] # Nil THEN {<<"user_id", in["UserID"]>>} ELSE {})
    \cup (IF in["AgencyID"] # Nil THEN {<<"agency_id", in["AgencyID"]>>} ELSE {})

SearchAccounts ==
    /\ Idle
    /\ \E in \in AccountInputs, resp \in Responses :
        LET at == SearchAccountInput_GetAccountType(in)
            req == [method |-> "GET", path |-> <<at, "search">>,
                    query |-> SearchParams(in),
                    headers |-> AccountsHeaders(client), body |-> {}]
        IN  IF ~ParseOK(client.BaseURL) THEN ReturnEarly("SearchAccounts", in, Nil, Fail("parse"))
            ELSE IF KindUndetermined(at) THEN ReturnEarly("SearchAccounts", in, at, Fail("KindUndetermined"))
            ELSE SingleShot("SearchAccounts", in, at, req, resp, DecodeOn200(resp))

\* VerifyAccountInput.AccountType is a free string
VerifyAccountTypes == {"", "user", "business"}

VerifyAccount ==
    /\ Idle
    /\ \E accountID \in IDs, at \in VerifyAccountTypes, resp \in Responses :
        LET in == [AccountID |-> accountID, AccountType |-> at]
            req == [method |-> "GET", path |-> <<at, accountID, "verify">>,
                    query |-> {},
                    headers |-> SetHeader(NoHeaders, "Authorization", Bearer(client.Token)),
                    body |-> {}]
        IN  IF ~ParseOK(client.BaseURL) THEN ReturnEarly("VerifyAccount", in, Nil, Fail("parse"))
            ELSE IF KindUndetermined(at) THEN ReturnEarly("VerifyAccount", in, at, Fail("KindUndetermined"))
            ELSE SingleShot("VerifyAccount", in, at, req, resp, DecodeOn200(resp))

FieldNames == {"user_id", "agencyId"}

GetAccountByField ==
    /\ Idle
    /\ \E fieldName \in FieldNames, fieldValue \in IDs, resp \in Responses :
        LET in == [fieldName |-> fieldName, fieldValue |-> fieldValue]
            req == [method |-> "GET", path |-> <<"accounts", fieldName, fieldValue>>,
                    query |-> {}, headers |-> AccountsHeaders(client), body |-> {}]
        IN  IF ~ParseOK(client.BaseURL) THEN ReturnEarly("GetAccountByField", in, Nil, Fail("parse"))
            ELSE SingleShot("GetAccountByField", in, Nil, req, resp, DecodeOn200(resp))

----------------------------------------------------------------------------
(* DeleteAccount: one DELETE per kind until one of them answers 200.       *)

\* DeleteAccount never reads the body of a response
DeleteResponses == {TransportError} \cup {Response(s, "json") : s \in Statuses}

\* the call: accountTypes is set up and the loop is entered
DeleteAccount ==
    /\ Idle
    /\ \E accountID \in IDs :
        /\ op' = "DeleteAccount"
        /\ input' = [accountID |-> accountID]
        /\ pc' = "DeleteAccount"
        /\ accountType' = Nil
        /\ idx' = 1
        /\ requests' = <<>>
        /\ responses' = <<>>
        /\ accounts' = <<>>
        /\ result' = NoResult
        /\ entity' = NoEntity
        /\ closed' = <<>>
        /\ UNCHANGED <<client, calls, server>>

\* mutant: every status other than 200 moves on to the next kind
DeleteAccountOutcome_Lenient(resp) ==
    IF resp.kind = "error" THEN [next |-> "return", res |-> Fail("transport")]
    ELSE IF resp.status = 200 THEN [next |-> "return", res |-> Ok(Nil)]
    ELSE [next |-> "continue", res |-> NoResult]

\* mutant: a kind that cannot be reached is passed over
DeleteAccountOutcome_PassOver(resp) ==
    IF resp.kind = "error" THEN [next |-> "continue", res |-> NoResult]
    ELSE IF resp.status = 200 THEN [next |-> "return", res |-> Ok(Nil)]
    ELSE IF resp.status # 404 THEN [next |-> "return", res |-> Fail("status")]
    ELSE [next |-> "continue", res |-> NoResult]

\* mutant: deleting what is not there counts as done
DeleteAccountOutcome_Idempotent(resp) ==
    IF resp.kind = "error" THEN [next |-> "return", res |-> Fail("transport")]
    ELSE IF resp.status \in {200, 404} THEN [next |-> "return", res |-> Ok(Nil)]
    ELSE [next |-> "return", res |-> Fail("status")]

\* what one iteration does with the response: "return" with a result, or
\* "continue" to the next kind
DeleteAccountOutcome(resp) ==
    IF resp.kind = "error" THEN [next |-> "return", res |-> Fail("transport")]
    ELSE IF resp.status = 200 THEN [next |-> "return", res |-> Ok(Nil)]
    ELSE IF resp.status # 404 THEN [next |-> "return", res |-> Fail("status")]
    ELSE [next |-> "continue", res |-> NoResult]

\* mutant: the loop asks the same kind again
NextKind_Again(i) == i

\* `for _, accountType := range accountTypes` moves on to the next element
NextKind(i) == i + 1

\* one iteration of the loop over accountTypes; leaving the loop after the
\* last kind returns "account not found"
DeleteAccountStep ==
    /\ pc = "DeleteAccount"
    /\ UNCHANGED <<client, op, input, accounts, entity, calls, server>>
    /\ IF ~ParseOK(client.BaseURL)
       THEN /\ result' = Fail("parse")
            /\ pc' = "done"
            /\ closed' = ClosedOnReturn(responses)
            /\ UNCHANGED <<accountType, idx, requests, responses>>
       ELSE \E resp \in DeleteResponses :
            LET at == accountTypes[idx]
                req == [method |-> "DELETE", path |-> <<at, input.accountID>>,
                        query |-> {}, headers |-> AccountsHeaders(client), body |-> {}]
                out == DeleteAccountOutcome(resp)
            IN  /\ accountType' = at
                /\ requests' = Append(requests, req)
                /\ responses' = Append(responses, resp)
                /\ IF out.next = "return"
                   THEN /\ result' = out.res
                        /\ pc' = "done"
                        /\ idx' = idx
                   ELSE IF idx = Len(accountTypes)
                   THEN /\ result' = Fail("AccountNotFound")
                        /\ pc' = "done"
                        /\ idx' = idx
                   ELSE /\ result' = result
                        /\ pc' = pc
                        /\ idx' = NextKind(idx)
                /\ closed' = IF pc' = "done" THEN ClosedOnReturn(responses')
                             ELSE Append(closed, resp.kind = "error")

----------------------------------------------------------------------------
(* ListAccounts: one GET per kind, the decoded lists appended in order.    *)

RECURSIVE SeqsUpTo(_, _)
SeqsUpTo(S, n) ==
    IF n = 0 THEN {<<>>}
    ELSE LET shorter == SeqsUpTo(S, n - 1)
         IN  shorter \cup {Append(q, x) : q \in {r \in shorter : Len(r) = n - 1}, x \in S}

\* the lists a kind endpoint may return in {"accounts": [...]}
AccountLists == SeqsUpTo(AccountRecords, MaxAccounts)

ListResponse(l) == [kind |-> "response", status |-> 200, body |-> "json", list |-> l]

ListResponses == Responses \cup {ListResponse(l) : l \in AccountLists}

ListAccounts ==
    /\ Idle
    /\ op' = "ListAccounts"
    /\ input' = Nil
    /\ pc' = "ListAccounts"
    /\ accountType' = Nil
    /\ idx' = 1
    /\ requests' = <<>>
    /\ responses' = <<>>
    /\ accounts' = <<>>
    /\ result' = NoResult
    /\ entity' = NoEntity
    /\ closed' = <<>>
    /\ UNCHANGED <<client, calls, server>>

\* mutant: the new list is put in front of the accounts collected so far
ListAccountsOutcome_Prepend(resp, acc) ==
    IF resp.kind = "error" THEN [next |-> "return", res |-> Fail("transport"), acc |-> acc]
    ELSE IF resp.status # 200 THEN [next |-> "return", res |-> Fail("status"), acc |-> acc]
    ELSE IF resp.body = "unreadable" THEN [next |-> "return", res |-> Fail("read"), acc |-> acc]
    ELSE IF resp.body = "garbage" THEN [next |-> "return", res |-> Fail("decode"), acc |-> acc]
    ELSE [next |-> "continue", res |-> NoResult, acc |-> resp.list \o acc]

\* mutant: a kind whose body does not decode is skipped
ListAccountsOutcome_Skip(resp, acc) ==
    IF resp.kind = "error" THEN [next |-> "return", res |-> Fail("transport"), acc |-> acc]
    ELSE IF resp.status # 200 THEN [next |-> "return", res |-> Fail("status"), acc |-> acc]
    ELSE IF resp.body = "unreadable" THEN [next |-> "return", res |-> Fail("read"), acc |-> acc]
    ELSE IF resp.body = "garbage" THEN [next |-> "continue", res |-> NoResult, acc |-> acc]
    ELSE [next |-> "continue", res |-> NoResult, acc |-> acc \o resp.list]

\* what one iteration does with the response
ListAccountsOutcome(resp, acc) ==
    IF resp.kind = "error" THEN [next |-> "return", res |-> Fail("transport"), acc |-> acc]
    ELSE IF resp.status # 200 THEN [next |-> "return", res |-> Fail("status"), acc |-> acc]
    ELSE IF resp.body = "unreadable" THEN [next |-> "return", res |-> Fail("read"), acc |-> acc]
    ELSE IF resp.body = "garbage" THEN [next |-> "return", res |-> Fail("decode"), acc |-> acc]
    ELSE [next |-> "continue", res |-> NoResult, acc |-> acc \o resp.list]

\* one iteration of the loop; leaving the loop returns the accounts
ListAccountsStep ==
    /\ pc = "ListAccounts"
    /\ UNCHANGED <<client, op, input, entity, calls, server>>
    /\ IF ~ParseOK(client.BaseURL)
       THEN /\ result' = Fail("parse")
            /\ pc' = "done"
            /\ closed' = ClosedOnReturn(responses)
            /\ UNCHANGED <<accountType, idx, requests, responses, accounts>>
       ELSE \E resp \in {r \in ListResponses : Len(accounts) + Len(r.list) <= MaxAccounts} :
            LET at == ListAccounts_accountTypes[idx]
                req == [method |-> "GET", path |-> <<at>>,
                        query |-> {}, headers |-> AccountsHeaders(client), body |-> {}]
                out == ListAccountsOutcome(resp, accounts)
            IN  /\ accountType' = at
                /\ requests' = Append(requests, req)
                /\ responses' = Append(responses, resp)
                /\ accounts' = out.acc
                /\ IF out.next = "return"
                   THEN /\ result' = out.res
                        /\ pc' = "done"
                        /\ idx' = idx
                   ELSE IF idx = Len(ListAccounts_accountTypes)
                   THEN /\ result' = Ok(out.acc)
                        /\ pc' = "done"
                        /\ idx' = idx
                   ELSE /\ result' = result
                        /\ pc' = pc
                        /\ idx' = NextKind(idx)
                /\ closed' = IF pc' = "done" THEN ClosedOnReturn(responses')
                             ELSE Append(closed, resp.kind = "error")

----------------------------------------------------------------------------
(* The sub-clients.  Every operation of account_links.go,                  *)
(* account_memberships.go, agency.go (with the token operations),          *)
(* celebrity.go, enterprise.go, permissions.go and the government,         *)
(* business and service-account files has the same shape: check the        *)
(* arguments, build the URL, build the request, set headers, Do, compare   *)
(* the status, read or decode the body.  What differs from one operation   *)
(* to the next is kept in one record per operation:                        *)
(*   method   the HTTP method handed to http.NewRequest                    *)
(*   apiKey   the header name the API key is set under, as written in the  *)
(*            source; "" when the operation sets no API key header         *)
(*   guarded  TRUE when Authorization and the API key are set only if the  *)
(*            client's Token / ApiKey is not empty                         *)
(*   accept   the status codes the operation treats as success             *)
(*   errBody  what the rejected-status branch does with the body:          *)
(*            "none" does not read it, "ignore" reads it and drops the     *)
(*            read error, "check" returns the read error, "fallback"       *)
(*            reports the status alone when the read fails, "read" means   *)
(*            io.ReadAll ran (and could fail) before the status check      *)
(*   after    what follows an accepted status: "none" returns, "decode"    *)
(*            decodes the body, "read" only reads it, "status" decodes it  *)
(*            and requires its status field to be "success", "exists"      *)
(*            returns whether the status was 200                           *)
(*   check    what runs before the URL is built: "none", "args" (argument  *)
(*            or payload validation), "client" (Client.Validate),          *)
(*            "baseURL" (c.BaseURL == "")                                   *)
(* The URL of these requests is not modelled, a request is told apart by   *)
(* the operation that built it; arguments and payload are modelled for the *)
(* operations listed in ModelledArgs.                                      *)

StatusOK == 200

StatusCreated == 201

StatusNoContent == 204

StatusNotFound == 404

\* `resp.StatusCode < 200 || resp.StatusCode >= 300` is the error branch
Any2xx == {s \in Statuses : s >= 200 /\ s < 300}

\* `resp.StatusCode >= 400` is the error branch
Below400 == {s \in Statuses : s < 400}

Op(name, method, apiKey, accept, errBody, after, check) ==
    [name |-> name, method |-> method, apiKey |-> apiKey, guarded |-> FALSE,
     accept |-> accept, errBody |-> errBody, after |-> after, check |-> check]

\* account_links.go; each operation with the lines of its function
AccountLinkOperations ==
    { \* 30-74
      Op("CreateAccountLink", "POST", "X-Api-Key", {StatusCreated}, "ignore", "decode", "none"),
      \* 77-113
      Op("GetAccountLink", "GET", "X-Api-Key", {StatusOK}, "ignore", "decode", "none"),
      \* 115-149
      Op("GetAccountLinksByUserID", "GET", "X-API-Key", {StatusOK}, "none", "decode", "none"),
      \* 152-187
      Op("GetAccountLinksByAccountID", "GET", "X-Api-Key", {StatusOK}, "ignore", "decode", "none"),
      \* 189-221
      Op("GetAccountLinksByAccountType", "GET", "X-API-KEY", {StatusOK}, "none", "decode", "none"),
      \* 223-264
      Op("UpdateAccountLink", "PUT", "", {StatusOK}, "ignore", "none", "none"),
      \* 266-293
      Op("DeleteAccountLink", "DELETE", "", {StatusOK}, "check", "none", "none"),
      \* 295-325
      Op("ListAccountLinks", "GET", "X-API-Key", {StatusOK}, "ignore", "decode", "none"),
      \* 327-363
      Op("IsUserLinkedToAccount", "GET", "X-Api-Key", {StatusOK}, "none", "decode", "none"),
      \* 366-398
      Op("GetLinkedAccountsForUser", "GET", "X-Api-Key", {StatusOK}, "none", "decode", "none") }

\* account_memberships.go; each operation with the lines of its function
AccountMembershipOperations ==
    { \* 35-77
      Op("CreateAccountMembership", "POST", "", {StatusCreated}, "check", "decode", "none"),
      \* 80-111
      Op("GetAccountMembershipByID", "GET", "X-Api-Key", {StatusOK}, "none", "decode", "none"),
      \* 113-153
      Op("GetAccountMembershipsByUserID", "GET", "X-Api-Key", {StatusOK}, "none", "decode", "none"),
      \* 161-197
      Op("GetAccountMembershipsByAccountID", "GET", "X-API-Key", {StatusOK}, "ignore", "decode", "none"),
      \* 199-231
      Op("GetAccountMembershipsByAccountType", "GET", "", {StatusOK}, "none", "decode", "none"),
      \* 233-270
      Op("UpdateAccountMembership", "PATCH", "", {StatusOK}, "none", "decode", "none"),
      \* 272-298
      Op("DeleteAccountMembership", "DELETE", "X-Api-Key", {StatusOK}, "ignore", "none", "none"),
      \* 300-341
      Op("ListAccountMemberships", "GET", "X-Api-Key", {StatusOK}, "read", "decode", "none"),
      \* 343-376
      Op("IsUserAMemberOfAccount", "GET", "X-Api-Key", {StatusOK}, "ignore", "decode", "none"),
      \* 378-420
      Op("GetMembersOfAccount", "GET", "X-API-KEY", {StatusOK}, "none", "decode", "none"),
      \* 423-456
      Op("GetRolesForUserInAccount", "GET", "X-API-Key", {StatusOK}, "none", "decode", "none") }

\* agency.go, the agency accounts; each operation with the lines of its function
AgencyAccountOperations ==
    { \* 37-83
      Op("CreateAgencyAccount", "POST", "X-Api-Key", {StatusCreated}, "ignore", "decode", "none"),
      \* 85-119
      Op("GetAgencyAccountByID", "GET", "X-API-Key", {StatusOK}, "none", "decode", "none"),
      \* 121-147
      Op("GetAgencyAccountsByUserID", "GET", "X-Api-Key", {StatusOK}, "none", "decode", "none"),
      \* 149-186
      Op("UpdateAgencyAccount", "PUT", "", {StatusOK}, "ignore", "none", "none"),
      \* 188-221
      Op("DeleteAgencyAccount", "DELETE", "X-Api-Key", Any2xx, "ignore", "none", "none"),
      \* 223-252
      Op("ListAgencyAccounts", "GET", "x-api-key", {StatusOK}, "none", "decode", "none"),
      \* 254-286
      Op("AddMemberToAgencyAccount", "POST", "X-Api-Key", {StatusOK}, "ignore", "none", "none"),
      \* 288-317
      Op("RemoveMemberFromAgencyAccount", "DELETE", "", {StatusOK}, "ignore", "none", "none"),
      \* 319-354
      Op("GetMembersOfAgencyAccount", "GET", "", {StatusOK}, "ignore", "decode", "none"),
      \* 356-384
      Op("UpdateMemberRoleInAgencyAccount", "PATCH", "", {StatusOK}, "ignore", "none", "none") }

\* agency.go from line 386 on, the tokens; each operation with the lines of its function
TokenOperations ==
    { \* 416-467
      Op("CreateToken", "POST", "X-API-Key", {StatusCreated}, "ignore", "decode", "args"),
      \* 469-501
      Op("GetTokenByPlaintext", "GET", "X-API-Key", {StatusOK}, "ignore", "decode", "none"),
      \* 504-543
      Op("GetTokensByUserID", "GET", "X-API-Key", {StatusOK}, "ignore", "decode", "none"),
      \* 545-578
      Op("GetTokensByScope", "GET", "X-API-Key", {StatusOK}, "ignore", "decode", "none"),
      \* 580-623
      Op("DeleteToken", "DELETE", "X-API-Key", {StatusNoContent}, "ignore", "none", "args"),
      \* 626-652
      Op("DeleteTokensByUserID", "DELETE", "X-API-Key", {StatusOK}, "ignore", "none", "none"),
      \* 663-695
      Op("DeleteExpiredTokens", "DELETE", "X-API-Key", {StatusOK}, "ignore", "none", "client"),
      \* 697-746
      Op("VerifyToken", "POST", "X-API-Key", {StatusOK}, "ignore", "decode", "client") }

\* celebrity.go; each operation with the lines of its function
CelebrityAccountOperations ==
    { \* 57-97
      Op("CreateCelebrityAccount", "POST", "X-Api-Key", {StatusCreated}, "ignore", "decode", "none"),
      \* 100-133
      Op("GetCelebrityAccountByID", "GET", "X-API-Key", {StatusOK}, "ignore", "decode", "none"),
      \* 136-180
      Op("GetCelebrityAccountsByUserID", "GET", "X-API-KEY", {StatusOK}, "check", "decode", "none"),
      \* 192-247
      Op("UpdateCelebrityAccount", "PUT", "X-Api-Key", {StatusOK}, "read", "decode", "args"),
      \* 249-296
      Op("DeleteCelebrityAccount", "DELETE", "", {StatusOK}, "ignore", "status", "none"),
      \* 298-337
      Op("ListCelebrityAccounts", "GET", "X-API-Key", {StatusOK}, "none", "decode", "none"),
      \* 340-387
      Op("AddMemberToCelebrityAccount", "POST", "", Below400, "check", "none", "none"),
      \* 389-416
      Op("RemoveMemberFromCelebrityAccount", "DELETE", "x-api-key", {StatusOK}, "none", "none", "none"),
      \* 418-459
      Op("GetMembersOfCelebrityAccount", "GET", "X-API-Key", {StatusOK}, "ignore", "decode", "none"),
      \* 461-498
      Op("UpdateMemberRoleInCelebrityAccount", "PUT", "", {StatusOK}, "ignore", "none", "none") }

\* mutant: the create expects 201 Created like the other sub-client creates
CreateEnterpriseAccount_Created ==
    Op("CreateEnterpriseAccount", "POST", "", {StatusCreated}, "check", "decode", "none")

\* enterprise.go, lines 61-104
CreateEnterpriseAccount ==
    Op("CreateEnterpriseAccount", "POST", "", {StatusOK}, "check", "decode", "none")

\* enterprise.go; each operation with the lines of its function
EnterpriseAccountOperations ==
    { \* 61-104
      CreateEnterpriseAccount,
      \* 106-138
      Op("GetEnterpriseAccountByID", "GET", "X-Api-Key", {StatusOK}, "none", "decode", "none"),
      \* 140-176
      Op("GetEnterpriseAccountsByUserID", "GET", "x-api-key", {StatusOK}, "fallback", "decode", "none"),
      \* 178-222
      Op("UpdateEnterpriseAccount", "PUT", "", {StatusOK}, "ignore", "none", "args"),
      \* 224-255
      Op("DeleteEnterpriseAccount", "DELETE", "", {StatusOK}, "ignore", "none", "none"),
      \* 262-306
      Op("ListEnterpriseAccounts", "GET", "X-API-Key", {StatusOK}, "none", "decode", "none"),
      \* 308-355
      Op("AddMemberToEnterpriseAccount", "POST", "x-api-key", {StatusOK}, "ignore", "none", "none"),
      \* 357-389
      Op("RemoveMemberFromEnterpriseAccount", "DELETE", "", {StatusOK}, "ignore", "none", "none"),
      \* 392-433
      Op("GetMembersOfEnterpriseAccount", "GET", "X-API-Key", {StatusOK}, "none", "decode", "baseURL"),
      \* 435-466
      Op("UpdateMemberRoleInEnterpriseAccount", "PUT", "", {StatusOK}, "ignore", "none", "none") }

\* mutant: only a 200 is not an error
DoesPermissionExist_Strict ==
    Op("DoesPermissionExist", "GET", "X-API-Key", {StatusOK}, "ignore", "exists", "none")

\* permissions.go 290-321: the switch on the status has a case for 200, a
\* case for 404 and a default that is the error
DoesPermissionExist ==
    Op("DoesPermissionExist", "GET", "X-API-Key", {StatusOK, StatusNotFound}, "ignore", "exists", "none")

\* permissions.go; each operation with the lines of its function
PermissionOperations ==
    { \* 24-71
      Op("CreatePermission", "POST", "X-Api-Key", {StatusCreated}, "ignore", "decode", "none"),
      \* 73-113
      Op("GetPermissionByID", "GET", "X-Api-Key", {StatusOK}, "ignore", "decode", "none"),
      \* 115-158
      Op("GetPermissionByName", "GET", "X-API-Key", {StatusOK}, "check", "decode", "none"),
      \* 176-221
      Op("UpdatePermission", "PUT", "X-API-Key", {StatusOK}, "ignore", "none", "args"),
      \* 223-254
      Op("DeletePermission", "DELETE", "X-API-Key", {StatusOK}, "ignore", "none", "args"),
      \* 256-288
      Op("ListPermissions", "GET", "X-API-Key", {StatusOK}, "ignore", "decode", "none"),
      \* 290-321
      DoesPermissionExist,
      \* 324-360
      Op("GetPermissionsByUserID", "GET", "X-API-Key", {StatusOK}, "ignore", "decode", "none"),
      \* 363-396
      Op("GetPermissionsByRoleID", "GET", "X-API-Key", {StatusOK}, "ignore", "decode", "none") }

\* unnamed/part_000, the government accounts; each operation with the lines of its function
GovernmentAccountOperations ==
    { \* 50-93
      Op("CreateGovernmentAccount", "POST", "", {StatusOK}, "none", "decode", "none"),
      \* 96-132
      Op("GetGovernmentAccountByID", "GET", "X-Api-Key", {StatusOK}, "ignore", "decode", "none"),
      \* 134-171
      Op("GetGovernmentAccountsByUserID", "GET", "X-Api-Key", {StatusOK}, "none", "decode", "none"),
      \* 188-234
      Op("UpdateGovernmentAccount", "PUT", "X-Api-Key", {StatusOK}, "ignore", "none", "args"),
      \* 236-267
      Op("DeleteGovernmentAccount", "DELETE", "X-Api-Key", {StatusOK}, "ignore", "none", "none"),
      \* 269-308
      Op("ListGovernmentAccounts", "GET", "X-API-KEY", {StatusOK}, "ignore", "decode", "none"),
      \* 310-358
      Op("AddMemberToGovernmentAccount", "POST", "", {StatusOK}, "check", "none", "none"),
      \* 360-390
      Op("RemoveMemberFromGovernmentAccount", "DELETE", "X-Api-Key", {StatusOK}, "check", "none", "none"),
      \* 392-442
      Op("GetMembersOfGovernmentAccount", "POST", "X-Api-Key", {StatusOK}, "none", "decode", "none"),
      \* 457-504
      Op("UpdateMemberRoleInGovernmentAccount", "PUT", "X-Api-Key", {StatusOK}, "check", "none", "args") }

\* unnamed/part_001, the business accounts; each operation with the lines of its function
BusinessAccountOperations ==
    { \* 39-81
      Op("CreateBusinessAccount", "POST", "", {StatusCreated}, "none", "decode", "none"),
      \* 83-110
      Op("GetBusinessAccountByID", "GET", "X-API-Key", {StatusOK}, "ignore", "decode", "none"),
      \* 112-154
      Op("GetBusinessAccountsByUserID", "GET", "", {StatusOK}, "none", "decode", "none"),
      \* 172-215
      Op("UpdateBusinessAccount", "PUT", "X-API-Key", {StatusOK}, "none", "none", "args"),
      \* 217-254
      [ Op("DeleteBusinessAccount", "DELETE", "X-Api-Key", {StatusOK}, "none", "none", "none")
          EXCEPT !.guarded = TRUE ],
      \* 256-292
      Op("ListBusinessAccounts", "GET", "x-api-key", {StatusOK}, "none", "decode", "none"),
      \* 294-339
      Op("AddMemberToBusinessAccount", "POST", "", {StatusOK}, "none", "read", "none"),
      \* 341-373
      Op("RemoveMemberFromBusinessAccount", "DELETE", "", {StatusOK}, "ignore", "none", "none"),
      \* 375-417
      Op("GetMembersOfBusinessAccount", "GET", "", Below400, "ignore", "decode", "none"),
      \* 420-459
      Op("UpdateMemberRoleInBusinessAccount", "PUT", "", {StatusOK}, "ignore", "none", "none") }

\* unnamed/part_002, the service accounts; each operation with the lines of its function
ServiceAccountOperations ==
    { \* 36-84
      Op("CreateServiceAccount", "POST", "X-API-Key", {StatusCreated}, "ignore", "decode", "args"),
      \* 87-119
      Op("GetServiceAccountByID", "GET", "X-API-Key", {StatusOK}, "ignore", "decode", "none"),
      \* 121-159
      Op("GetServiceAccountByName", "GET", "X-API-Key", {StatusOK}, "ignore", "decode", "none"),
      \* 162-208
      Op("UpdateServiceAccount", "PUT", "X-API-Key", {StatusOK}, "ignore", "none", "args"),
      \* 211-237
      Op("DeleteServiceAccount", "DELETE", "X-API-Key", {StatusOK}, "ignore", "none", "none"),
      \* 239-271
      Op("ListServiceAccounts", "GET", "X-API-Key", {StatusOK}, "ignore", "decode", "none"),
      \* 273-311
      Op("AssignRoleToServiceAccount", "POST", "X-API-Key", {StatusOK}, "ignore", "none", "none"),
      \* 314-348
      Op("RemoveRoleFromServiceAccount", "DELETE", "X-API-Key", {StatusOK}, "ignore", "none", "none"),
      \* 351-384
      Op("GetRolesByServiceAccountID", "GET", "X-API-Key", {StatusOK}, "ignore", "decode", "none"),
      \* 386-420
      Op("GetServiceAccountsByRoleID", "GET", "X-API-Key", {StatusOK}, "ignore", "decode", "none"),
      \* 422-464
      Op("IsRoleAssignedToServiceAccount", "GET", "X-API-Key", {StatusOK}, "ignore", "decode", "none") }

\* every sub-client operation
Operations ==
    AccountLinkOperations
    \cup AccountMembershipOperations
    \cup AgencyAccountOperations
    \cup TokenOperations
    \cup CelebrityAccountOperations
    \cup EnterpriseAccountOperations
    \cup PermissionOperations
    \cup GovernmentAccountOperations
    \cup BusinessAccountOperations
    \cup ServiceAccountOperations

----------------------------------------------------------------------------
(* Tokens.                                                                 *)

Scopes == {"", "activation"}

\* t.Expiry.Before(now)
Before(t, u) == t < u

\* a Token as far as Validate and CreateToken look at it
Tokens == [UserID : UUIDs, Scope : Scopes, Expiry : Times]

\* mutant: the scope is not checked
Token_Validate_NoScope(t, now) ==
    IF t.UserID = NilUUID THEN "user ID is required"
    ELSE IF Before(t.Expiry, now) THEN "expiry must be a future time"
    ELSE "nil"

\* Token.Validate, with now the reading of time.Now() it takes; "nil" is the
\* nil error
Token_Validate(t, now) ==
    IF t.UserID = NilUUID THEN "user ID is required"
    ELSE IF t.Scope = "" THEN "scope is required"
    ELSE IF Before(t.Expiry, now) THEN "expiry must be a future time"
    ELSE "nil"

\* time.Hour * 24
TokenLifetime == 24

\* hours that pass between the time.Now() of CreateToken and the time.Now()
\* of the Validate it calls: none, exactly the lifetime, more than it
Delays == {0, TokenLifetime, TokenLifetime + 1}

\* the payload CreateToken builds, on a clock that reads 0 when it is built
CreateToken_payload(in) ==
    [UserID |-> in.userID, Scope |-> in.scope, Expiry |-> 0 + TokenLifetime]

\* json.Marshal of the Token payload (the struct has no json tags)
MarshalToken(t) ==
    [Plaintext |-> "", Hash |-> "null", UserID |-> t.UserID,
     Expiry |-> t.Expiry, Scope |-> t.Scope, Error |-> "null"]

----------------------------------------------------------------------------
(* Account memberships.                                                    *)

UpdateAccountMembershipEvents ==
    [AccountType : {"", "agency"}, AccountID : UUIDs, UserID : UUIDs, Role : {"", "admin"}]

\* a JSON object with no member
EmptyObject == [k \in {} |-> ""]

\* json.Marshal of an UpdateAccountMembershipEvent.  All four fields are
\* tagged omitempty; the tag drops an empty string, and never drops a
\* uuid.UUID, which is an array of sixteen bytes: the zero UUID is written
\* out like any other.
MarshalUpdateAccountMembershipEvent(ev) ==
    (IF ev.AccountType # "" THEN "account_type" :> ev.AccountType ELSE EmptyObject)
    @@ ("account_id" :> ev.AccountID)
    @@ ("user_id" :> ev.UserID)
    @@ (IF ev.Role # "" THEN "role" :> ev.Role ELSE EmptyObject)

----------------------------------------------------------------------------
(* Service accounts.                                                       *)

\* a *time.Time: <<>> is the nil pointer, <<t>> points to the instant t
OptTimes == {<<>>} \cup {<<t>> : t \in Times}

\* []string of role names
RoleLists == {<<>>, <<"reader">>}

ServiceAccountDatas ==
    [ServiceName : {"", " ", "billing"}, Roles : RoleLists, ExpiresAt : OptTimes]

\* strings.TrimSpace
TrimSpace(str) == IF str = " " THEN "" ELSE str

\* the validation at the head of CreateServiceAccount: a name that is not
\* blank and at least one role; ExpiresAt is not looked at
CreateServiceAccount_Valid(data) ==
    /\ TrimSpace(data.ServiceName) # ""
    /\ Len(data.Roles) # 0

\* json.Marshal of a ServiceAccountData: expires_at is a pointer tagged
\* omitempty and is left out when nil
MarshalServiceAccountData(data) ==
    ("service_name" :> data.ServiceName)
    @@ ("roles" :> data.Roles)
    @@ (IF data.ExpiresAt # <<>> THEN "expires_at" :> data.ExpiresAt[1] ELSE EmptyObject)

\* a ServiceAccount value
ServiceAccounts ==
    [ID : UUIDs, Secret : {"", "s3cret"}, ServiceName : {"", "billing"},
     Roles : RoleLists, CreatedAt : {0}, ExpiresAt : OptTimes]

\* a *ServiceAccount: <<>> is the nil pointer
ServiceAccountPointers == {<<>>} \cup {<<sa>> : sa \in ServiceAccounts}

\* the validation at the head of UpdateServiceAccount
UpdateServiceAccount_Valid(ptr) ==
    /\ ptr # <<>>
    /\ ptr[1].ID # NilUUID
    /\ ptr[1].ServiceName # ""
    /\ Len(ptr[1].Roles) # 0

\* mutant: Secret is tagged json:"secret"
MarshalServiceAccount_Tagged(sa) ==
    ("id" :> sa.ID)
    @@ ("secret" :> sa.Secret)
    @@ ("service_name" :> sa.ServiceName)
    @@ ("roles" :> sa.Roles)
    @@ ("created_at" :> sa.CreatedAt)
    @@ (IF sa.ExpiresAt # <<>> THEN "expires_at" :> sa.ExpiresAt[1] ELSE EmptyObject)

\* json.Marshal of a ServiceAccount: Secret is tagged json:"-" and is never
\* written
MarshalServiceAccount(sa) ==
    ("id" :> sa.ID)
    @@ ("service_name" :> sa.ServiceName)
    @@ ("roles" :> sa.Roles)
    @@ ("created_at" :> sa.CreatedAt)
    @@ (IF sa.ExpiresAt # <<>> THEN "expires_at" :> sa.ExpiresAt[1] ELSE EmptyObject)

\* the operations that decode a response body into ServiceAccount values
ServiceAccountDecoders ==
    {"CreateServiceAccount", "GetServiceAccountByID", "GetServiceAccountByName",
     "ListServiceAccounts", "GetServiceAccountsByRoleID"}

\* a well-formed body whose service accounts have a "secret" member
SecretBodies == {Response(s, "json+secret") : s \in Statuses}

\* json decoding into a ServiceAccount: a field tagged json:"-" is never
\* assigned, whatever the members of the body, and keeps its zero value
DecodeServiceAccount(body) == [type |-> "ServiceAccount", Secret |-> ""]

----------------------------------------------------------------------------
(* Permissions.                                                            *)

Permissions == [ID : UUIDs, Name : {"", "accounts:read"}, Description : {"", "read access"}]

\* mutant: the ID is not checked
Permission_Validate_NameOnly(perm) ==
    IF perm.Name = "" THEN "permission Name cannot be empty"
    ELSE "nil"

\* Permission.Validate; "nil" is the nil error
Permission_Validate(perm) ==
    IF perm.ID = NilUUID THEN "permission ID cannot be empty"
    ELSE IF perm.Name = "" THEN "permission Name cannot be empty"
    ELSE "nil"

\* the payload UpdatePermission copies out of its argument
UpdatePermission_payload(perm) ==
    [ID |-> perm.ID, Name |-> perm.Name, Description |-> perm.Description]

\* json.Marshal of a Permission
MarshalPermission(perm) ==
    ("id" :> perm.ID) @@ ("name" :> perm.Name) @@ ("description" :> perm.Description)

----------------------------------------------------------------------------
(* The operations that check their arguments before they build a request.  *)

Names == {"", "name"}

\* DeleteToken: both identifiers must differ from uuid.Nil
DeleteToken_Valid(in) == in.userID # NilUUID /\ in.tokenID # NilUUID

\* DeletePermission
DeletePermission_Valid(in) == in.permissionID # NilUUID

\* UpdateEnterpriseAccount
UpdateEnterpriseAccount_Valid(in) ==
    /\ in.input.UserID # NilUUID
    /\ in.input.EnterpriseID # NilUUID
    /\ in.input.UpdatedUserAccountID # NilUUID

\* UpdateCelebrityAccountEvent.Validate: UserID is not looked at
UpdateCelebrityAccountEvent_Validate(e) ==
    /\ e.CelebrityID # NilUUID
    /\ e.NewName # ""

\* the event UpdateGovernmentAccount builds from its arguments
UpdateGovernmentAccount_event(in) ==
    [UserID |-> in.userID, GovernmentName |-> in.newName, GovernmentID |-> in.governmentID]

\* UpdateGovernmentAccountEvent.Validate
UpdateGovernmentAccountEvent_Validate(e) ==
    /\ e.UserID # NilUUID
    /\ e.GovernmentName # ""
    /\ e.GovernmentID # NilUUID

\* UpdateMemberRoleInGovernmentAccountEvent.Validate
UpdateMemberRoleInGovernmentAccountEvent_Validate(event) ==
    /\ event.UserID # NilUUID
    /\ event.GovernmentID # NilUUID
    /\ event.NewRoleID # NilUUID

\* the payload UpdateBusinessAccount builds: the business id stands in for
\* the user id and the current name is left empty
UpdateBusinessAccount_payload(in) ==
    [UserID |-> in.businessID, BusinessName |-> "",
     NewBusinessName |-> in.newBusinessName, BusinessID |-> in.businessID]

\* UpdateBusinessAccountEvent.Validate: BusinessName is not looked at
UpdateBusinessAccountEvent_Validate(u) ==
    /\ u.UserID # NilUUID
    /\ u.NewBusinessName # ""
    /\ u.BusinessID # NilUUID

----------------------------------------------------------------------------
\* the operations whose arguments are modelled
ModelledArgs ==
    {"CreateToken", "UpdateAccountMembership", "CreateServiceAccount",
     "UpdateServiceAccount", "UpdatePermission", "DeleteToken", "DeletePermission",
     "UpdateEnterpriseAccount", "UpdateCelebrityAccount", "UpdateGovernmentAccount",
     "UpdateMemberRoleInGovernmentAccount", "UpdateBusinessAccount",
     "IsUserLinkedToAccount"}

\* the arguments a call of the operation is given
ArgsOf(d) ==
    CASE d.name = "CreateToken" -> [userID : UUIDs, scope : Scopes, elapsed : Delays]
      [] d.name = "UpdateAccountMembership" ->
            [accountMembershipID : IDs, event : UpdateAccountMembershipEvents]
      [] d.name = "CreateServiceAccount" ->
            [serviceAccount : ServiceAccountDatas, now : Times]
      [] d.name = "UpdateServiceAccount" -> [serviceAccount : ServiceAccountPointers]
      [] d.name = "UpdatePermission" -> [permission : Permissions]
      [] d.name = "DeleteToken" -> [userID : UUIDs, tokenID : UUIDs]
      [] d.name = "DeletePermission" -> [permissionID : UUIDs]
      [] d.name = "UpdateEnterpriseAccount" ->
            [input : [UserID : UUIDs, EnterpriseID : UUIDs, UpdatedUserAccountID : UUIDs]]
      [] d.name = "UpdateCelebrityAccount" ->
            [event : [CelebrityID : UUIDs, UserID : UUIDs, NewName : Names]]
      [] d.name = "UpdateGovernmentAccount" ->
            [userID : UUIDs, governmentID : UUIDs, newName : Names]
      [] d.name = "UpdateMemberRoleInGovernmentAccount" ->
            [event : [UserID : UUIDs, GovernmentID : UUIDs, NewRoleID : UUIDs]]
      [] d.name = "UpdateBusinessAccount" -> [businessID : UUIDs, newBusinessName : Names]
      [] d.name = "IsUserLinkedToAccount" -> [userID : UUIDs, accountID : UUIDs]
      [] OTHER -> {[none |-> TRUE]}

\* the operation's own validation of its arguments; the operations not
\* listed have none
ArgsValid(d, in) ==
    CASE d.name = "CreateToken" -> Token_Validate(CreateToken_payload(in), in.elapsed) = "nil"
      [] d.name = "CreateServiceAccount" -> CreateServiceAccount_Valid(in.serviceAccount)
      [] d.name = "UpdateServiceAccount" -> UpdateServiceAccount_Valid(in.serviceAccount)
      [] d.name = "UpdatePermission" ->
            Permission_Validate(UpdatePermission_payload(in.permission)) = "nil"
      [] d.name = "DeleteToken" -> DeleteToken_Valid(in)
      [] d.name = "DeletePermission" -> DeletePermission_Valid(in)
      [] d.name = "UpdateEnterpriseAccount" -> UpdateEnterpriseAccount_Valid(in)
      [] d.name = "UpdateCelebrityAccount" -> UpdateCelebrityAccountEvent_Validate(in.event)
      [] d.name = "UpdateGovernmentAccount" ->
            UpdateGovernmentAccountEvent_Validate(UpdateGovernmentAccount_event(in))
      [] d.name = "UpdateMemberRoleInGovernmentAccount" ->
            UpdateMemberRoleInGovernmentAccountEvent_Validate(in.event)
      [] d.name = "UpdateBusinessAccount" ->
            UpdateBusinessAccountEvent_Validate(UpdateBusinessAccount_payload(in))
      [] OTHER -> TRUE

\* the JSON body of the request; the empty object where the payload is not
\* modelled
Payload(d, in) ==
    CASE d.name = "CreateToken" -> MarshalToken(CreateToken_payload(in))
      [] d.name = "UpdateAccountMembership" -> MarshalUpdateAccountMembershipEvent(in.event)
      [] d.name = "CreateServiceAccount" -> MarshalServiceAccountData(in.serviceAccount)
      [] d.name = "UpdateServiceAccount" -> MarshalServiceAccount(in.serviceAccount[1])
      [] d.name = "UpdatePermission" ->
            MarshalPermission(UpdatePermission_payload(in.permission))
      [] OTHER -> EmptyObject

\* the path of the request below the base URL; an operation whose URL is
\* not modelled is told apart by its name
PathOf(d, in) ==
    IF d.name = "IsUserLinkedToAccount" THEN <<"accountLink", in.accountID>>
    ELSE <<d.name>>

\* is.URL of the validation library
IsURL(baseURL) == baseURL = "https://accounts.example.com"

\* Client.Validate: Token, ApiKey and BaseURL are required, BaseURL is a URL
Client_Validate(c) == c.Token # "" /\ c.ApiKey # "" /\ c.BaseURL # "" /\ IsURL(c.BaseURL)

\* mutant: the client's own configuration is taken on trust
Checked_Trusting(d, c, in) ==
    CASE d.check = "args" -> ArgsValid(d, in)
      [] d.check = "baseURL" -> c.BaseURL # ""
      [] OTHER -> TRUE

\* the checks of an operation that run before its URL is built
Checked(d, c, in) ==
    CASE d.check = "args" -> ArgsValid(d, in)
      [] d.check = "client" -> Client_Validate(c)
      [] d.check = "baseURL" -> c.BaseURL # ""
      [] OTHER -> TRUE

\* the Authorization and API key headers the operation puts on its request
OpHeaders(d, c) ==
    LET auth == IF d.guarded /\ c.Token = "" THEN NoHeaders
                ELSE SetHeader(NoHeaders, "Authorization", Bearer(c.Token))
    IN  IF d.apiKey = "" \/ (d.guarded /\ c.ApiKey = "") THEN auth
        ELSE SetHeader(auth, d.apiKey, c.ApiKey)

\* a body that is well-formed JSON whose status field is not "success"
Refusals == {Response(s, "refusal") : s \in Statuses}

\* bodies that are the JSON of an AccountLink: of user id1, of user id2, and
\* one without a user_id member
LinkTexts == {"link-id1", "link-id2", "link-none"}

LinkBodies == {Response(s, b) : s \in Statuses, b \in LinkTexts}

\* json.NewDecoder(resp.Body).Decode(&accountLink): UserID stays the zero
\* UUID when the object has no user_id
DecodeAccountLink(body) ==
    [UserID |-> CASE body = "link-id1" -> "id1"
                  [] body = "link-id2" -> "id2"
                  [] OTHER -> NilUUID]

\* mutant: the link is matched on the account it names
IsLinked_ByAccount(accountLink, in) ==
    IF accountLink.UserID = in.accountID THEN "true" ELSE "false"

\* the comparison at the end of IsUserLinkedToAccount
IsLinked(accountLink, in) ==
    IF accountLink.UserID = in.userID THEN "true" ELSE "false"

ResponsesFor(d) ==
    IF d.after = "status" THEN Responses \cup Refusals
    ELSE IF d.name = "IsUserLinkedToAccount" THEN Responses \cup LinkBodies
    ELSE IF d.name \in ServiceAccountDecoders THEN Responses \cup SecretBodies
    ELSE Responses

\* the struct the operation's decode filled in
Entity(d, resp, res) ==
    IF d.name \in ServiceAccountDecoders /\ res.err = "none"
    THEN DecodeServiceAccount(resp.body)
    ELSE NoEntity

\* what the operation returns for the response of HttpClient.Do
Outcome(d, resp) ==
    IF resp.kind = "error" THEN Fail("transport")
    ELSE IF d.errBody = "read" /\ resp.body = "unreadable" THEN Fail("read")
    ELSE IF resp.status \notin d.accept
         THEN IF d.errBody = "none" THEN Fail("status")
              ELSE IF resp.body = "unreadable" /\ d.errBody = "check" THEN Fail("read")
              ELSE IF resp.body = "unreadable" /\ d.errBody = "fallback" THEN Fail("status")
              ELSE StatusError(resp)
    ELSE IF d.after = "none" THEN Ok(Nil)
    ELSE IF d.after = "exists"
         THEN Ok(IF resp.status = StatusOK THEN "true" ELSE "false")
    ELSE IF resp.body = "unreadable" THEN Fail("read")
    ELSE IF d.after = "read" THEN Ok(Nil)
    ELSE IF resp.body = "garbage" THEN Fail("decode")
    ELSE IF d.after = "status" /\ resp.body = "refusal" THEN Fail("refused")
    ELSE Ok("decoded")

\* a call of one sub-client operation
\* the operations declared to return (bool, error)
BoolOperations ==
    {"DoesPermissionExist", "IsUserLinkedToAccount", "IsUserAMemberOfAccount",
     "IsRoleAssignedToServiceAccount"}

\* what the caller gets: beside an error a (bool, error) operation hands
\* back false; IsUserLinkedToAccount compares the decoded link with userID
Returned(d, in, resp, res) ==
    IF res.err # "none"
    THEN [res EXCEPT !.val = IF d.name \in BoolOperations THEN "false" ELSE Nil]
    ELSE IF d.name = "IsUserLinkedToAccount"
    THEN Ok(IsLinked(DecodeAccountLink(resp.body), in))
    ELSE res

Call ==
    /\ Idle
    /\ \E d \in Operations :
       \E in \in ArgsOf(d) :
       \E resp \in ResponsesFor(d) :
        LET req == [method |-> d.method, path |-> PathOf(d, in), query |-> {},
                    headers |-> OpHeaders(d, client), body |-> Payload(d, in)]
        IN  IF ~Checked(d, client, in)
            THEN ReturnEarly(d.name, in, Nil, Returned(d, in, resp, Fail("invalid")))
            ELSE IF ~ParseOK(client.BaseURL)
            THEN ReturnEarly(d.name, in, Nil, Returned(d, in, resp, Fail("parse")))
            ELSE Finish(d.name, in, Nil, <<req>>, <<resp>>,
                        Returned(d, in, resp, Outcome(d, resp)),
                        Entity(d, resp, Outcome(d, resp)))

----------------------------------------------------------------------------
\* a direct call of Token.Validate
ValidateToken ==
    /\ Idle
    /\ \E t \in Tokens, now \in Times :
        LET e == Token_Validate(t, now)
        IN  ReturnEarly("Token.Validate", [token |-> t, now |-> now], Nil,
                        IF e = "nil" THEN Ok(Nil) ELSE Fail(e))

\* a direct call of Permission.Validate
ValidatePermission ==
    /\ Idle
    /\ \E perm \in Permissions :
        LET e == Permission_Validate(perm)
        IN  ReturnEarly("Permission.Validate", [permission |-> perm], Nil,
                        IF e = "nil" THEN Ok(Nil) ELSE Fail(e))

----------------------------------------------------------------------------
(* The Account record and its JSON form.  ID is a uuid.UUID written under  *)
(* "id"; UserID is a pointer written under "user_id", as null when nil;    *)
(* the other five pointers are tagged omitempty and are left out when nil. *)
(* A pointer to the zero UUID is not nil and is written.                   *)

AccountStructs == {a \in [{"ID"} \cup Fields -> UUIDs \cup {Nil}] : a["ID"] # Nil}

\* mutant: omitempty is taken to drop a pointer to the zero UUID as well
MarshalAccount_OmitZero(a) ==
    {<<"id", a["ID"]>>}
    \cup {<<"user_id", IF a["UserID"] = Nil THEN "null" ELSE a["UserID"]>>}
    \cup { <<JSONKey(f), a[f]>> : f \in {g \in Fields \ {"UserID"} : a[g] \notin {Nil, NilUUID}} }

\* json.Marshal of an Account: a set of <<key, value>> members
MarshalAccount(a) ==
    {<<"id", a["ID"]>>}
    \cup {<<"user_id", IF a["UserID"] = Nil THEN "null" ELSE a["UserID"]>>}
    \cup { <<JSONKey(f), a[f]>> : f \in {g \in Fields \ {"UserID"} : a[g] # Nil} }

\* json.Unmarshal into `var account Account`: every field starts at its
\* zero value (the zero UUID for ID, nil for the pointers); a member that
\* is present and not null is parsed into its field, a null leaves ID alone
\* and makes a pointer nil, and a missing member leaves the field alone.
UnmarshalAccount(obj) ==
    LET Values(k) == {m[2] : m \in {n \in obj : n[1] = k}}
        Member(k, zero) ==
            IF Values(k) = {} \/ Values(k) = {"null"} THEN zero
            ELSE CHOOSE v \in Values(k) : v # "null"
    IN  [f \in {"ID"} \cup Fields |->
            IF f = "ID" THEN Member("id", NilUUID) ELSE Member(JSONKey(f), Nil)]

\* an Account is marshalled and the text is unmarshalled into a new Account
AccountRoundTrip ==
    /\ Idle
    /\ \E a \in AccountStructs :
        ReturnEarly("AccountRoundTrip", [account |-> a], Nil,
                    Ok(UnmarshalAccount(MarshalAccount(a))))

----------------------------------------------------------------------------
\* the call has returned: the caller holds the result and the client keeps
\* nothing of the call (no method writes a field of Client)
Return ==
    /\ pc = "done"
    /\ pc' = "idle"
    /\ op' = Nil
    /\ input' = Nil
    /\ accountType' = Nil
    /\ idx' = 1
    /\ accounts' = <<>>
    /\ requests' = <<>>
    /\ responses' = <<>>
    /\ result' = NoResult
    /\ entity' = NoEntity
    /\ closed' = <<>>
    /\ UNCHANGED <<client, calls, server>>

----------------------------------------------------------------------------
(* Two callers run DeleteAccount for the same id at the same time on one   *)
(* client.  Each call is the loop of DeleteAccount with its own locals;    *)
(* the calls share nothing but the client, which they only read.  A step   *)
(* is one iteration: one DELETE handed to HttpClient.Do and its answer.    *)
(* The server holds the id under one kind and answers a DELETE in one      *)
(* piece: 200 and the account is gone if it is held under that kind, 404   *)
(* otherwise.                                                              *)

Callers == {"A", "B"}

\* the id both callers pass
SharedID == CHOOSE id \in IDs : TRUE

\* the base URL under which the server is reached
ServerURL == "https://accounts.example.com"

NoCall == [pc |-> "idle", idx |-> 1, requests |-> <<>>, responses |-> <<>>, result |-> NoResult]

\* the server's answer to DELETE <kind>/<id>
ServerAnswer(held, at) == IF at \in held THEN Response(200, "json") ELSE Response(404, "json")

\* the kinds the id is held under after that DELETE
ServerAfter(held, at) == held \ {at}

\* a caller enters DeleteAccount
ConcurrentDeleteAccount ==
    /\ \E p \in Callers :
        /\ calls[p].pc = "idle"
        /\ calls' = [calls EXCEPT ![p].pc = "DeleteAccount"]
    /\ UNCHANGED <<client, pc, op, input, accountType, idx, accounts, requests, responses,
                   result, entity, closed, server>>

\* one iteration of the loop of one caller; a request built from a base URL
\* that is not the server's does not reach it and Do returns an error
ConcurrentDeleteAccountStep ==
    /\ \E p \in Callers :
        /\ calls[p].pc = "DeleteAccount"
        /\ IF ~ParseOK(client.BaseURL)
           THEN /\ calls' = [calls EXCEPT ![p].pc = "done", ![p].result = Fail("parse")]
                /\ UNCHANGED server
           ELSE LET c == calls[p]
                    at == accountTypes[c.idx]
                    reached == client.BaseURL = ServerURL
                    req == [method |-> "DELETE", path |-> <<at, SharedID>>,
                            query |-> {}, headers |-> AccountsHeaders(client), body |-> {}]
                    resp == IF reached THEN ServerAnswer(server, at) ELSE TransportError
                    out == DeleteAccountOutcome(resp)
                    last == c.idx = Len(accountTypes)
                IN  /\ server' = IF reached THEN ServerAfter(server, at) ELSE server
                    /\ calls' = [calls EXCEPT ![p] =
                          [pc |-> IF out.next = "return" \/ last THEN "done" ELSE "DeleteAccount",
                           idx |-> IF out.next = "return" \/ last THEN c.idx ELSE NextKind(c.idx),
                           requests |-> Append(c.requests, req),
                           responses |-> Append(c.responses, resp),
                           result |-> IF out.next = "return" THEN out.res
                                      ELSE IF last THEN Fail("AccountNotFound")
                                      ELSE c.result]]
    /\ UNCHANGED <<client, pc, op, input, accountType, idx, accounts, requests, responses,
                   result, entity, closed>>

Init ==
    /\ client \in Clients
    /\ pc = "idle"
    /\ op = Nil
    /\ input = Nil
    /\ accountType = Nil
    /\ idx = 1
    /\ accounts = <<>>
    /\ requests = <<>>
    /\ responses = <<>>
    /\ result = NoResult
    /\ entity = NoEntity
    /\ closed = <<>>
    /\ calls = [p \in Callers |-> NoCall]
    /\ server = {}

Next ==
    \/ CreateAccount
    \/ UpdateAccount
    \/ DeleteAccount
    \/ DeleteAccountStep
    \/ ListAccounts
    \/ ListAccountsStep
    \/ SearchAccounts
    \/ VerifyAccount
    \/ GetAccountByField
    \/ Call
    \/ ValidateToken
    \/ ValidatePermission
    \/ AccountRoundTrip
    \/ Return

Spec == Init /\ [][Next]_vars

\* the concurrent callers: nothing else is called on the client meanwhile
ConcurrentInit ==
    /\ client \in Clients
    /\ pc = "idle"
    /\ op = Nil
    /\ input = Nil
    /\ accountType = Nil
    /\ idx = 1
    /\ accounts = <<>>
    /\ requests = <<>>
    /\ responses = <<>>
    /\ result = NoResult
    /\ entity = NoEntity
    /\ closed = <<>>
    /\ calls = [p \in Callers |-> NoCall]
    /\ server \in {{accountTypes[k]} : k \in 1..Len(accountTypes)}

ConcurrentNext ==
    \/ ConcurrentDeleteAccount
    \/ ConcurrentDeleteAccountStep

ConcurrentSpec == ConcurrentInit /\ [][ConcurrentNext]_vars

----------------------------------------------------------------------------
(* Properties.                                                             *)

Done == pc = "done"

ResolvingOps == {"CreateAccount", "UpdateAccount", "SearchAccounts"}

\* the six-field input of the resolving call in progress
KindInput == IF op = "UpdateAccount" THEN input.input ELSE input

Populated(in) == {f \in Fields : in[f] # Nil}

KindName(f) ==
    CASE f = "UserID" -> "user"
      [] f = "AgencyID" -> "agency"
      [] f = "CelebrityID" -> "celebrity"
      [] f = "BusinessID" -> "business"
      [] f = "EnterpriseID" -> "enterprise"
      [] f = "GovernmentID" -> "government"

\* the documented priority order user > agency > celebrity > business >
\* enterprise > government
Priority == <<"UserID", "AgencyID", "CelebrityID", "BusinessID", "EnterpriseID", "GovernmentID">>

FirstPopulated(in) ==
    Priority[CHOOSE k \in 1..6 : /\ in[Priority[k]] # Nil
                                 /\ \A j \in 1..(k - 1) : in[Priority[j]] = Nil]

KindOrder == <<"user", "agency", "celebrity", "business", "enterprise", "government">>

\* C1 as stated: with exactly one kind-identifier set, GetAccountType
\* returns the kind of that field; with all six nil it returns "" and the
\* operation fails with "could not determine the account type".
C1_AsStated ==
    (Done /\ op \in ResolvingOps) =>
        /\ \A f \in Fields :
            (Populated(KindInput) = {f} /\ accountType # Nil) => accountType = KindName(f)
        /\ Populated(KindInput) = {} => result.err = "KindUndetermined"

\* C1 amended: with exactly one kind-identifier set, GetAccountType returns
\* the kind of that field; with all six nil the operation fails, with
\* "could not determine the account type" when the client's BaseURL parses
\* (GetAccountType then returned "") and with the URL parse error, before
\* the kind is resolved, when it does not.
C1_Resolver ==
    (Done /\ op \in ResolvingOps) =>
        /\ ParseOK(client.BaseURL) => accountType # Nil
        /\ \A f \in Fields :
            (Populated(KindInput) = {f} /\ accountType # Nil) => accountType = KindName(f)
        /\ Populated(KindInput) = {} =>
            IF ParseOK(client.BaseURL)
            THEN accountType = "" /\ result.err = "KindUndetermined"
            ELSE accountType = Nil /\ result.err = "parse"

C1_Witness ==
    /\ Done
    /\ op = "SearchAccounts"
    /\ Populated(KindInput) = {"GovernmentID"}
    /\ accountType = "government"

\* C2: with more than one kind-identifier set, GetAccountType returns the
\* kind of the populated field that comes first in the priority order, and
\* the input is never rejected as undetermined.
C2_Priority ==
    (Done /\ op \in ResolvingOps /\ accountType # Nil /\ Cardinality(Populated(KindInput)) > 1) =>
        /\ accountType = KindName(FirstPopulated(KindInput))
        /\ result.err # "KindUndetermined"

C2_Witness ==
    /\ Done
    /\ op = "CreateAccount"
    /\ Populated(KindInput) = {"CelebrityID", "EnterpriseID", "GovernmentID"}
    /\ accountType = "celebrity"
    /\ Len(requests) = 1

Status(k) == responses[k].status

\* C3: DeleteAccount asks the kinds one at a time in the fixed order; the
\* kinds asked so far are a prefix of that order, every response before
\* the last was a 404, a 404 is never the end of the call before the sixth
\* kind, and a 200 ends the call with success.
C3_DeleteOrder ==
    op = "DeleteAccount" =>
        /\ Len(requests) <= 6
        /\ Len(responses) = Len(requests)
        /\ \A k \in 1..Len(requests) :
            /\ requests[k].method = "DELETE"
            /\ requests[k].path = <<KindOrder[k], input.accountID>>
        /\ \A k \in 1..(Len(responses) - 1) :
            responses[k].kind = "response" /\ Status(k) = 404
        /\ \A k \in 1..Len(responses) :
            (responses[k].kind = "response" /\ Status(k) = 200) =>
                /\ k = Len(responses)
                /\ Done
                /\ result = Ok(Nil)
        /\ \A k \in 1..Len(responses) :
            (responses[k].kind = "response" /\ Status(k) = 404 /\ k < 6 /\ k = Len(responses)) =>
                pc = "DeleteAccount"

\* an id present only under business: 404, 404, 404, 200 and nothing more
C3_Witness ==
    /\ Done
    /\ op = "DeleteAccount"
    /\ Len(requests) = 4
    /\ [k \in 1..4 |-> Status(k)] = <<404, 404, 404, 200>>
    /\ requests[4].path[1] = "business"
    /\ result = Ok(Nil)

\* C4: DeleteAccount returns "account not found" exactly when all six
\* kind endpoints answered 404; six requests were then sent, one per kind.
C4_NotFound ==
    (Done /\ op = "DeleteAccount") =>
        /\ result.err = "AccountNotFound" <=>
            /\ Len(responses) = 6
            /\ \A k \in 1..6 : responses[k].kind = "response" /\ Status(k) = 404
        /\ result.err = "AccountNotFound" =>
            /\ Len(requests) = 6
            /\ {requests[k].path[1] : k \in 1..6} = {KindOrder[k] : k \in 1..6}

C4_Witness ==
    /\ Done
    /\ op = "DeleteAccount"
    /\ result.err = "AccountNotFound"
    /\ Len(requests) = 6

Decodable(r) == r.kind = "response" /\ r.status = 200 /\ r.body = "json"

RECURSIVE Concat(_, _)
\* the lists of responses 1..n, one after the other
Concat(rs, n) == IF n = 0 THEN <<>> ELSE Concat(rs, n - 1) \o rs[n].list

RECURSIVE SumLen(_, _)
SumLen(rs, n) == IF n = 0 THEN 0 ELSE SumLen(rs, n - 1) + Len(rs[n].list)

\* C5: when every kind endpoint answers 200 with a decodable list,
\* ListAccounts sends exactly six GETs in the fixed order and returns the
\* six lists concatenated in that order, nothing removed.
C5_ListConcat ==
    (Done /\ op = "ListAccounts" /\ responses # <<>>
          /\ \A k \in 1..Len(responses) : Decodable(responses[k])) =>
        /\ Len(requests) = 6
        /\ \A k \in 1..6 : requests[k].method = "GET" /\ requests[k].path = <<KindOrder[k]>>
        /\ result.err = "none"
        /\ result.val = Concat(responses, 6)
        /\ Len(result.val) = SumLen(responses, 6)

\* the same account listed under agency and under business, the other four
\* kinds empty: it is returned twice
C5_Witness ==
    /\ Done
    /\ op = "ListAccounts"
    /\ Len(responses) = 6
    /\ \A k \in 1..6 : Decodable(responses[k])
    /\ responses[2].list = <<1>>
    /\ responses[4].list = <<1>>
    /\ \A k \in {1, 3, 5, 6} : responses[k].list = <<>>
    /\ result.val = <<1, 1>>

\* C6: ListAccounts stops at the first sub-request that fails (transport
\* error, status other than 200, unreadable or undecodable body): it returns
\* an error and a nil result, and asks no later kind.
C6_ListAbort ==
    op = "ListAccounts" =>
        \A k \in 1..Len(responses) :
            ~Decodable(responses[k]) =>
                /\ k = Len(responses)
                /\ Len(requests) = k
                /\ Done
                /\ result.err \notin {"none", Nil}
                /\ result.val = Nil

\* two kinds listed, the third fails: the accounts collected are dropped
C6_Witness ==
    /\ Done
    /\ op = "ListAccounts"
    /\ Len(responses) = 3
    /\ ~Decodable(responses[3])
    /\ accounts # <<>>
    /\ result.val = Nil
    /\ result.err = "decode"

\* C7: CreateAccount, UpdateAccount and SearchAccounts with all six
\* identifiers nil, and VerifyAccount with an empty AccountType, return an
\* error and send no request.
C7_NoRequest ==
    /\ (Done /\ op \in ResolvingOps /\ Populated(KindInput) = {}) =>
        requests = <<>> /\ result.err \notin {"none", Nil}
    /\ (Done /\ op = "VerifyAccount" /\ input.AccountType = "") =>
        requests = <<>> /\ result.err \notin {"none", Nil}

C7_Witness ==
    /\ Done
    /\ op = "VerifyAccount"
    /\ input.AccountType = ""
    /\ ParseOK(client.BaseURL)
    /\ result.err = "KindUndetermined"
    /\ requests = <<>>

\* C8: every request handed to HttpClient.Do, by any operation, carries an
\* Authorization header "Bearer <Token>" and an API key header (stored under
\* its canonical name whatever the case it was written in) equal to ApiKey.
C8_AuthHeaders ==
    \A k \in 1..Len(requests) :
        LET h == requests[k].headers
        IN  /\ "Authorization" \in DOMAIN h
            /\ h["Authorization"] = Bearer(client.Token)
            /\ "X-Api-Key" \in DOMAIN h
            /\ h["X-Api-Key"] = client.ApiKey

CreateOps ==
    {"CreateAccount", "CreateAgencyAccount", "CreateBusinessAccount",
     "CreateCelebrityAccount", "CreateEnterpriseAccount", "CreateGovernmentAccount",
     "CreateAccountMembership", "CreateAccountLink", "CreatePermission",
     "CreateServiceAccount", "CreateToken"}

\* the call sent one request and the service answered it
Answered == Done /\ Len(responses) = 1 /\ responses[1].kind = "response"

WellFormed(r) == r.body \notin {"garbage", "unreadable"}

\* C9 as stated: every create operation returns a decoded entity only when
\* the service answered 201, and an error for every other status.
C9_AsStated ==
    (Answered /\ op \in CreateOps) =>
        /\ Status(1) # 201 => result.err # "none"
        /\ result.err = "none" => (Status(1) = 201 /\ result.val = "decoded")

\* the creates whose status check is written against http.StatusOK
CreatesExpectingOK == {"CreateAccount", "CreateEnterpriseAccount", "CreateGovernmentAccount"}

CreateStatus(o) == IF o \in CreatesExpectingOK THEN 200 ELSE 201

\* C9 amended: every create operation has one success status, 200 for
\* CreateAccount, CreateEnterpriseAccount and CreateGovernmentAccount and 201
\* for the other eight; it returns a decoded entity only when the service
\* answered that status (and does so when the body decodes), and returns an
\* error for every other status.
C9_CreateStatus ==
    (Answered /\ op \in CreateOps) =>
        /\ Status(1) # CreateStatus(op) => result.err # "none"
        /\ result.err = "none" => (Status(1) = CreateStatus(op) /\ result.val = "decoded")
        /\ (Status(1) = CreateStatus(op) /\ WellFormed(responses[1])) => result = Ok("decoded")

\* an enterprise account created on 200 OK
C9_Witness ==
    /\ Answered
    /\ op = "CreateEnterpriseAccount"
    /\ Status(1) = 200
    /\ result = Ok("decoded")

\* the operations that loop over the kinds
FanOutOps == {"DeleteAccount", "ListAccounts"}

SuccessStatus(o) == IF o = "DeleteToken" THEN 204 ELSE 200

\* C10: every read, list, search, verify, update, membership and delete
\* operation returns without error if and only if the status is exactly 200
\* (204 for DeleteToken): any other status, other 2xx and 3xx included, is an
\* error, and the expected status with a well-formed body is a success.
C10_ExactStatus ==
    (Answered /\ op \notin CreateOps \cup FanOutOps) =>
        /\ result.err = "none" => Status(1) = SuccessStatus(op)
        /\ (Status(1) = SuccessStatus(op) /\ WellFormed(responses[1])) => result.err = "none"

Last(q) == q[Len(q)]

\* C11: whenever an operation receives a response whose status is not its
\* expected success status, the error it returns carries the text of the
\* response body.
C11_ErrorBody ==
    (Done /\ result.err = "status" /\ Last(responses).body # "unreadable") =>
        result.diag = Last(responses).body

\* the query parameter of an identifier field
ParamName(f) ==
    CASE f = "UserID" -> "user_id"
      [] f = "AgencyID" -> "agency_id"
      [] f = "CelebrityID" -> "celebrity_id"
      [] f = "BusinessID" -> "business_id"
      [] f = "EnterpriseID" -> "enterprise_id"
      [] f = "GovernmentID" -> "government_id"

\* C12: SearchAccounts sends one GET to <resolved kind>/search whose query
\* has one parameter for every identifier field that is non-nil in the input
\* and none for a nil field.
C12_SearchQuery ==
    (Done /\ op = "SearchAccounts" /\ requests # <<>>) =>
        /\ Len(requests) = 1
        /\ requests[1].method = "GET"
        /\ requests[1].path = <<KindName(FirstPopulated(input)), "search">>
        /\ requests[1].query = {<<ParamName(f), input[f]>> : f \in Populated(input)}

\* C13: the client never retries.  Every operation other than DeleteAccount
\* and ListAccounts hands at most one request to HttpClient.Do per call,
\* whatever the outcome; DeleteAccount and ListAccounts hand it at most six,
\* and no kind endpoint is asked more than once.
C13_NoRetry ==
    /\ op \notin FanOutOps => Len(requests) <= 1
    /\ op \in FanOutOps =>
        /\ Len(requests) <= 6
        /\ \A j, k \in 1..Len(requests) : j # k => requests[j].path[1] # requests[k].path[1]

\* a server error from the second kind: the call ends there, and the first
\* kind is not asked again
C13_Witness ==
    /\ Done
    /\ op = "DeleteAccount"
    /\ Len(requests) = 2
    /\ responses[2].kind = "response"
    /\ Status(2) = 500
    /\ result.err = "status"

\* C14: CreateToken fails before any request is sent whenever the payload it
\* would submit has an empty scope, a nil user ID or an expiry that the
\* validation finds in the past.
C14_TokenPreflight ==
    (Done /\ op = "CreateToken"
          /\ \/ input.scope = ""
             \/ input.userID = NilUUID
             \/ CreateToken_payload(input).Expiry < input.elapsed) =>
        /\ requests = <<>>
        /\ result.err = "invalid"

\* a well-formed URL, a user, and no scope
C14_Witness ==
    /\ Done
    /\ op = "CreateToken"
    /\ ParseOK(client.BaseURL)
    /\ input.userID # NilUUID
    /\ input.scope = ""
    /\ input.elapsed = 0
    /\ requests = <<>>
    /\ result.err = "invalid"

\* C15: Token.Validate accepts a token only if its expiry is strictly later
\* than the current time; an expiry equal to the current instant, like an
\* earlier one, gets the "expiry must be a future time" error.
C15_StrictExpiry ==
    (Done /\ op = "Token.Validate" /\ input.token.UserID # NilUUID /\ input.token.Scope # "") =>
        /\ result.err = "none" => input.token.Expiry > input.now
        /\ input.token.Expiry <= input.now => result.err = "expiry must be a future time"

\* the members a partial patch of the event would hold: the fields the
\* caller gave a value other than the zero value
ProvidedMembers(ev) ==
    (IF ev.AccountType # "" THEN {"account_type"} ELSE {})
    \cup (IF ev.AccountID # NilUUID THEN {"account_id"} ELSE {})
    \cup (IF ev.UserID # NilUUID THEN {"user_id"} ELSE {})
    \cup (IF ev.Role # "" THEN {"role"} ELSE {})

\* C16: UpdateAccountMembership sends a PATCH whose JSON body holds exactly
\* the fields of the event the caller provided; a field left at its zero
\* value (empty AccountType, empty Role, zero AccountID, zero UserID) is not
\* in the body.
C16_PartialPatch ==
    (Done /\ op = "UpdateAccountMembership" /\ requests # <<>>) =>
        /\ requests[1].method = "PATCH"
        /\ DOMAIN requests[1].body = ProvidedMembers(input.event)

\* the kind identifiers a Create/UpdateAccountInput payload carries a value
\* for
NonNullIdentifiers(body) == {p \in body : p[2] # "null"}

\* C17: every CreateAccount and UpdateAccount call that sends a request
\* submits a payload in which exactly one of the six kind identifiers is
\* non-null; an input with two or more populated identifiers is never sent
\* as it is.
C17_OneIdentifier ==
    (op \in {"CreateAccount", "UpdateAccount"} /\ requests # <<>>) =>
        Cardinality(NonNullIdentifiers(requests[1].body)) = 1

\* C18: CreateServiceAccount called with an ExpiresAt that is set and not in
\* the future (input.now is the instant of the call) returns an error and
\* sends no request.
C18_ExpiryPreflight ==
    (Done /\ op = "CreateServiceAccount"
          /\ input.serviceAccount.ExpiresAt # <<>>
          /\ input.serviceAccount.ExpiresAt[1] <= input.now) =>
        /\ requests = <<>>
        /\ result.err \notin {"none", Nil}

ServiceAccountOps ==
    {"CreateServiceAccount", "GetServiceAccountByID", "GetServiceAccountByName",
     "UpdateServiceAccount", "DeleteServiceAccount", "ListServiceAccounts",
     "AssignRoleToServiceAccount", "RemoveRoleFromServiceAccount",
     "GetRolesByServiceAccountID", "GetServiceAccountsByRoleID",
     "IsRoleAssignedToServiceAccount"}

\* C19: the Secret of a ServiceAccount never crosses the wire in JSON.  No
\* request body of a service-account operation has a member for it or holds
\* its value (UpdateServiceAccount marshals the whole ServiceAccount), and no
\* ServiceAccount decoded from a response has its Secret set from the body.
C19_SecretOffWire ==
    op \in ServiceAccountOps =>
        /\ \A k \in 1..Len(requests) :
            LET body == requests[k].body
            IN  /\ DOMAIN body \cap {"secret", "Secret"} = {}
                /\ op = "UpdateServiceAccount" =>
                    DOMAIN body = {"id", "service_name", "roles", "created_at"}
                        \cup (IF input.serviceAccount[1].ExpiresAt # <<>> THEN {"expires_at"} ELSE {})
        /\ entity.Secret = ""

\* a service account with a secret is updated: the PUT is sent without it
C19_Witness ==
    /\ Done
    /\ op = "UpdateServiceAccount"
    /\ Len(requests) = 1
    /\ input.serviceAccount[1].Secret = "s3cret"
    /\ requests[1].method = "PUT"
    /\ "service_name" \in DOMAIN requests[1].body
    /\ result = Ok(Nil)

\* C20: Permission.Validate returns nil if and only if the permission's ID
\* is not the nil UUID and its Name is not empty; the Description plays no
\* part.
C20_PermissionValid ==
    (Done /\ op = "Permission.Validate") =>
        (result.err = "none" <=>
            (input.permission.ID # NilUUID /\ input.permission.Name # ""))

\* a permission without a description is valid
C20_Witness ==
    /\ Done
    /\ op = "Permission.Validate"
    /\ input.permission.ID # NilUUID
    /\ input.permission.Name # ""
    /\ input.permission.Description = ""
    /\ result = Ok(Nil)

\* C21: when the kind is resolved, UpdateAccount sends exactly one request:
\* a PUT to <kind resolved from the input>/<id> whose body holds user_id
\* and every populated identifier of the input and nothing else; it never
\* sends more than one, and it returns the decoded Account only when the
\* answer is a 200.
C21_UpdatePut ==
    (Done /\ op = "UpdateAccount") =>
        /\ Len(requests) <= 1
        /\ (ParseOK(client.BaseURL) /\ Populated(input.input) # {}) =>
            /\ Len(requests) = 1
            /\ requests[1].method = "PUT"
            /\ requests[1].path = <<KindName(FirstPopulated(input.input)), input.accountID>>
            /\ requests[1].query = {}
            /\ \A f \in Fields :
                /\ input.input[f] # Nil => <<JSONKey(f), input.input[f]>> \in requests[1].body
                /\ (input.input[f] = Nil /\ f # "UserID") =>
                       \A v \in IDs \cup {"null"} : <<JSONKey(f), v>> \notin requests[1].body
            /\ Cardinality(requests[1].body) = Cardinality(Populated(input.input) \cup {"UserID"})
        /\ result.err = "none" =>
            /\ Len(responses) = 1
            /\ responses[1].kind = "response"
            /\ responses[1].status = 200
            /\ result.val = "decoded"
        /\ (Len(responses) = 1 /\ responses[1].kind = "response" /\ responses[1].status # 200) =>
            /\ result.err = "status"
            /\ result.val = Nil

C21_Witness ==
    /\ Done
    /\ op = "UpdateAccount"
    /\ Populated(input.input) = {"BusinessID", "GovernmentID"}
    /\ Len(requests) = 1
    /\ requests[1].method = "PUT"
    /\ requests[1].path = <<"business", "id1">>
    /\ responses[1].kind = "response"
    /\ responses[1].status = 200
    /\ result.val = "decoded"

\* what a call starts from: nothing of an earlier call is left
Fresh ==
    /\ op = Nil
    /\ input = Nil
    /\ accountType = Nil
    /\ idx = 1
    /\ accounts = <<>>
    /\ requests = <<>>
    /\ responses = <<>>
    /\ result = NoResult
    /\ entity = NoEntity
    /\ closed = <<>>

\* C22: no step of any operation, on success or on error, changes the
\* client's BaseURL, Token, ApiKey or HttpClient, and once a call has
\* returned nothing of it is kept: the next call starts from the client's
\* configuration alone.
C22_ConfigUnchanged == [][client' = client /\ (Idle' => Fresh')]_vars

C22_Witness ==
    /\ Done
    /\ op = "UpdateAccount"
    /\ result.err = "status"
    /\ client = [BaseURL |-> "https://accounts.example.com", Token |-> "tok",
                 ApiKey |-> "key", HttpClient |-> "http.DefaultClient"]

\* C23: an Account marshalled to JSON and unmarshalled again equals the
\* original field for field, whichever of its identifier pointers are nil,
\* point to an identifier or point to the zero UUID.
C23_RoundTrip ==
    (Done /\ op = "AccountRoundTrip") =>
        /\ result.err = "none"
        /\ \A f \in {"ID"} \cup Fields : result.val[f] = input.account[f]

C23_Witness ==
    /\ Done
    /\ op = "AccountRoundTrip"
    /\ input.account["ID"] = "id1"
    /\ input.account["UserID"] = Nil
    /\ input.account["AgencyID"] = NilUUID
    /\ input.account["CelebrityID"] = "id1"
    /\ input.account["GovernmentID"] = Nil
    /\ result.val = input.account

\* C24: a sub-request of DeleteAccount that fails at transport level or is
\* answered with a status other than 200 and 404 is the last one of the
\* call: DeleteAccount has returned an error, transport or status, and no
\* later kind is asked, whatever the server would have answered for it.
C24_DeleteAbort ==
    op = "DeleteAccount" =>
        \A k \in 1..Len(responses) :
            (responses[k].kind = "error" \/ Status(k) \notin {200, 404}) =>
                /\ k = Len(responses)
                /\ Len(requests) = k
                /\ Done
                /\ result.err = (IF responses[k].kind = "error" THEN "transport" ELSE "status")
                /\ result.val = Nil

\* user answers 404, agency cannot be reached: the call ends there
C24_Witness ==
    /\ Done
    /\ op = "DeleteAccount"
    /\ Len(requests) = 2
    /\ Status(1) = 404
    /\ responses[2].kind = "error"
    /\ requests[2].path[1] = "agency"
    /\ result.err = "transport"

\* the operations that check their arguments, and the two that check the
\* client
ArgumentCheckingOps ==
    {"UpdateGovernmentAccount", "UpdateMemberRoleInGovernmentAccount",
     "UpdateBusinessAccount", "UpdateCelebrityAccount", "UpdateEnterpriseAccount",
     "UpdatePermission", "DeletePermission", "CreateServiceAccount",
     "UpdateServiceAccount", "DeleteToken"}

ClientCheckingOps == {"DeleteExpiredTokens", "VerifyToken"}

\* the call in progress was given something its operation's check rejects
CheckFails ==
    CASE op = "UpdateGovernmentAccount" ->
            input.userID = NilUUID \/ input.newName = "" \/ input.governmentID = NilUUID
      [] op = "UpdateMemberRoleInGovernmentAccount" ->
            \/ input.event.UserID = NilUUID
            \/ input.event.GovernmentID = NilUUID
            \/ input.event.NewRoleID = NilUUID
      [] op = "UpdateBusinessAccount" ->
            input.businessID = NilUUID \/ input.newBusinessName = ""
      [] op = "UpdateCelebrityAccount" ->
            input.event.CelebrityID = NilUUID \/ input.event.NewName = ""
      [] op = "UpdateEnterpriseAccount" ->
            \/ input.input.UserID = NilUUID
            \/ input.input.EnterpriseID = NilUUID
            \/ input.input.UpdatedUserAccountID = NilUUID
      [] op = "UpdatePermission" ->
            input.permission.ID = NilUUID \/ input.permission.Name = ""
      [] op = "DeletePermission" -> input.permissionID = NilUUID
      [] op = "CreateServiceAccount" ->
            \/ input.serviceAccount.ServiceName \in {"", " "}
            \/ input.serviceAccount.Roles = <<>>
      [] op = "UpdateServiceAccount" ->
            \/ input.serviceAccount = <<>>
            \/ input.serviceAccount[1].ID = NilUUID
            \/ input.serviceAccount[1].ServiceName = ""
            \/ input.serviceAccount[1].Roles = <<>>
      [] op = "DeleteToken" -> input.userID = NilUUID \/ input.tokenID = NilUUID
      [] op \in ClientCheckingOps ->
            \/ client.Token = ""
            \/ client.ApiKey = ""
            \/ client.BaseURL # "https://accounts.example.com"
      [] OTHER -> FALSE

\* C25: in every operation that checks its input or the client before it
\* builds a request, a failed check ends the call with an error and without
\* any request; a request that was sent was sent for input that passed.
C25_CheckFirst ==
    (Done /\ op \in ArgumentCheckingOps \cup ClientCheckingOps) =>
        /\ CheckFails =>
            /\ requests = <<>>
            /\ responses = <<>>
            /\ result.err = "invalid"
            /\ result.val = Nil
        /\ requests # <<>> => ~CheckFails

\* DeleteExpiredTokens on a client without an API key
C25_Witness ==
    /\ Done
    /\ op = "DeleteExpiredTokens"
    /\ client.Token = "tok"
    /\ client.ApiKey = ""
    /\ client.BaseURL = "https://accounts.example.com"
    /\ requests = <<>>
    /\ result.err = "invalid"

\* C26: DoesPermissionExist returns (true, nil) on a 200, (false, nil) on a
\* 404 and (false, error) on every other status; a 404 is never an error.
C26_ExistsThreeWay ==
    (Answered /\ op = "DoesPermissionExist") =>
        /\ Status(1) = 200 => (result.val = "true" /\ result.err = "none")
        /\ Status(1) = 404 => (result.val = "false" /\ result.err = "none")
        /\ Status(1) \notin {200, 404} => (result.val = "false" /\ result.err = "status")

C26_Witness ==
    /\ Answered
    /\ op = "DoesPermissionExist"
    /\ Status(1) = 404
    /\ result = Ok("false")

\* C27: the request of IsUserLinkedToAccount is a GET of accountLink/<accountID>
\* and carries nothing of userID; the call returns true exactly when a 200
\* was answered with an AccountLink whose UserID equals userID, (false, nil)
\* when that link has another UserID, and (false, error) on every other
\* status and on a body that does not decode.
C27_LinkedToAccount ==
    (Done /\ op = "IsUserLinkedToAccount") =>
        /\ \A k \in 1..Len(requests) :
            /\ requests[k].method = "GET"
            /\ requests[k].path = <<"accountLink", input.accountID>>
            /\ requests[k].query = {}
            /\ requests[k].body = EmptyObject
        /\ Answered =>
            LET decoded == Status(1) = 200 /\ WellFormed(responses[1])
                link == DecodeAccountLink(responses[1].body)
            IN  /\ result.val = "true" <=> (decoded /\ link.UserID = input.userID)
                /\ (decoded /\ link.UserID # input.userID) => result = Ok("false")
                /\ ~decoded => (result.val = "false" /\ result.err \notin {"none", Nil})
                /\ Status(1) # 200 => result.err = "status"
        /\ ~Answered => (result.val = "false" /\ result.err \notin {"none", Nil})

\* the account is linked to id2 and the question is about id1
C27_Witness ==
    /\ Answered
    /\ op = "IsUserLinkedToAccount"
    /\ input.userID = "id1"
    /\ Status(1) = 200
    /\ responses[1].body = "link-id2"
    /\ result = Ok("false")

\* C28: when a call has returned, the body of every response it received
\* has been closed, whether it returned a value or an error.
C28_BodiesClosed ==
    Done =>
        /\ Len(closed) = Len(responses)
        /\ \A k \in 1..Len(responses) : closed[k]

\* C29: whichever of CreateAccount, UpdateAccount and SearchAccounts was
\* called, the kind it resolved for its input is the kind each of the three
\* GetAccountType methods returns for that input, and the request, if one
\* was sent, goes to that kind's path segment.
C29_ResolversAgree ==
    (Done /\ op \in ResolvingOps /\ accountType # Nil) =>
        /\ CreateAccountInput_GetAccountType(KindInput) = accountType
        /\ UpdateAccountInput_GetAccountType(KindInput) = accountType
        /\ SearchAccountInput_GetAccountType(KindInput) = accountType
        /\ \A k \in 1..Len(requests) : requests[k].path[1] = accountType

C29_Witness ==
    /\ Done
    /\ op = "UpdateAccount"
    /\ Populated(KindInput) = {"UserID", "AgencyID", "EnterpriseID"}
    /\ accountType = "user"
    /\ Len(requests) = 1
    /\ requests[1].path[1] = "user"

\* the callers whose call has returned success
Winners == {p \in Callers : calls[p].result = Ok(Nil)}

\* C30: with the id held under exactly one kind and each DELETE answered in
\* one piece, no more than one of the concurrent DeleteAccount calls is
\* ever answered 200, and once all of them have returned exactly one has
\* returned success and every other has returned "account not found",
\* however their DELETEs were interleaved.
C30_OneWinner ==
    client.BaseURL = ServerURL =>
        /\ Cardinality(Winners) <= 1
        /\ Cardinality({p \in Callers : \E k \in 1..Len(calls[p].responses) :
                            calls[p].responses[k].status = 200}) <= 1
        /\ (\A p \in Callers : calls[p].pc = "done") =>
            /\ Cardinality(Winners) = 1
            /\ \A p \in Callers \ Winners :
                /\ calls[p].result.err = "AccountNotFound"
                /\ Len(calls[p].requests) = 6

\* the id is held under business; A asked business after B had deleted it
C30_Witness ==
    /\ client.BaseURL = ServerURL
    /\ calls["A"].pc = "done"
    /\ calls["B"].pc = "done"
    /\ calls["B"].result = Ok(Nil)
    /\ Len(calls["B"].requests) = 4
    /\ calls["B"].requests[4].path[1] = "business"
    /\ calls["A"].result.err = "AccountNotFound"
    /\ Len(calls["A"].requests) = 6
    /\ server = {}

============================================================================
